---- MODULE Spec2Model ----
(***************************************************************************)
(* RRT* planner of src/src/main.rs: the node store, the planning step      *)
(* (random_point, find_nearest, steer, is_collision_free, add_node,        *)
(* rewire, update_best_path, trace_path) and the loop of main.             *)
(*                                                                         *)
(* Numbers.  The program computes in f32 and so does the model, bit for    *)
(* bit.  An f32 is written as the integer whose magnitude is its bit       *)
(* pattern without the sign bit and whose sign is its sign, so that the    *)
(* order of two f32 values is the order of their integers: 1.0 is          *)
(* 1065353216, 10.0 is 1092616192, -10.0 is -1092616192 and f32::INFINITY  *)
(* is 2139095040.  Subtraction, multiplication,                            *)
(* addition and square root round to nearest, ties to even, as IEEE 754    *)
(* prescribes.  atan2, cos and sin are not fixed by IEEE 754: the program  *)
(* calls atan2f, cosf and sinf of the C library, and the model follows     *)
(* the algorithms of glibc 2.36 on x86-64 with FMA step by step (atan2f    *)
(* in f32 operations; cosf and sinf in binary64 operations with fused      *)
(* multiply-add, the result rounded to f32).  TLC computes with 32-bit     *)
(* integers, so a binary64 mantissa is kept as a sequence of 15-bit limbs. *)
(* No coordinate of the program is ever -0.0, so the two zeros are one     *)
(* value here.                                                             *)
(*                                                                         *)
(* Indices.  Vec<Node> is a sequence, so index i of the program is index   *)
(* i + 1 of the model: the root is nodes[1], and Option<usize> is a        *)
(* number in 0..Len(nodes) with None written 0.                            *)
(***************************************************************************)
EXTENDS Integers, Sequences, FiniteSets

\* ------------------------------------------------------------------ bounds
\* iteration budget of the free runs (max_iterations of main, 5000 there)
MaxIterations == 4
\* iteration budget of the fixed-sample runs
ScenarioIterations == 11
\* iteration budget of the runs over the arguments of RRTStar::new
ConfigIterations == 2

\* ------------------------------------------------------------------ f32
INFINITY == 2139095040

Abs[n \in Int] == IF n < 0 THEN -n ELSE n
Sign[n \in Int] == IF n < 0 THEN -1 ELSE 1

\* number of bits of n, 0 <= n < 2^30: the least L in lo..hi with n < 2^L
BitLenBetween[n \in Nat, lo \in Nat, hi \in Nat] ==
    IF lo = hi THEN lo
    ELSE LET mid == (lo + hi) \div 2
         IN IF n < 2^mid THEN BitLenBetween[n, lo, mid]
                         ELSE BitLenBetween[n, mid + 1, hi]

BitLen[n \in Nat] == BitLenBetween[n, 0, 30]

\* v = Sign(v) * Mantissa(v) * 2^Exponent(v)
Exponent[v \in Int] == IF Abs[v] < 2^23 THEN -149 ELSE Abs[v] \div 2^23 - 150
Mantissa[v \in Int] == IF Abs[v] < 2^23 THEN Abs[v] ELSE (Abs[v] % 2^23) + 2^23

\* the same with the mantissa in 2^23 .. 2^24 - 1, for v # 0
NormShift[v \in Int] == 24 - BitLen[Mantissa[v]]
NormMantissa[v \in Int] == Mantissa[v] * 2^NormShift[v]
NormExponent[v \in Int] == Exponent[v] - NormShift[v]

\* n with its lowest bit set when more was cut off below it
Jam[n \in Nat, rest \in Nat] == IF rest # 0 /\ n % 2 = 0 THEN n + 1 ELSE n

\* q + r / (2 * half) rounded to an integer, ties to even
RoundHalfEven[q \in Nat, r \in Nat, half \in Nat] ==
    IF r > half \/ (r = half /\ q % 2 = 1) THEN q + 1 ELSE q

\* s * M * 2^e rounded at the exponent et, M with L bits
PackAt[s \in Int, M \in Nat, e \in Int, L \in Nat, et \in Int] ==
    IF et > 104 THEN s * INFINITY
    ELSE IF et <= e THEN s * ((et + 149) * 2^23 + M * 2^(e - et))
    ELSE IF et - e > L THEN 0
    ELSE s * ((et + 149) * 2^23
              + RoundHalfEven[M \div 2^(et - e), M % 2^(et - e), 2^(et - e - 1)])

\* the exponent of the result is that of a 24-bit mantissa, or -149 for a
\* subnormal
PackLen[s \in Int, M \in Nat, e \in Int, L \in Nat] ==
    PackAt[s, M, e, L, IF e + L - 24 < -149 THEN -149 ELSE e + L - 24]

\* the f32 nearest to s * M * 2^e, ties to even, 0 <= M < 2^30
Pack[s \in Int, M \in Nat, e \in Int] ==
    IF M = 0 THEN 0 ELSE PackLen[s, M, e, BitLen[M]]

PackSigned[S \in Int, e \in Int] == Pack[Sign[S], Abs[S], e]

from_int[n \in Int] == PackSigned[n, 0]

\* n / 2^d with the bits cut off jammed into the lowest bit, n < 2^27
ShiftJam[n \in Nat, d \in Nat] == IF d >= 28 THEN 1 ELSE Jam[n \div 2^d, n % 2^d]

\* big + small, the exponent of big the larger by d: the mantissas with
\* three more bits, that of small moved down to the exponent of big
AddAligned[big \in Int, small \in Int, d \in Nat] ==
    PackSigned[Sign[big] * Mantissa[big] * 8
                   + Sign[small] * ShiftJam[Mantissa[small] * 8, d],
               Exponent[big] - 3]

add[a \in Int, b \in Int] ==
    IF a = 0 THEN b
    ELSE IF b = 0 THEN a
    ELSE IF Abs[a] = INFINITY THEN a
    ELSE IF Abs[b] = INFINITY THEN b
    ELSE IF Exponent[a] < Exponent[b]
         THEN AddAligned[b, a, Exponent[b] - Exponent[a]]
         ELSE AddAligned[a, b, Exponent[a] - Exponent[b]]

sub[a \in Int, b \in Int] == add[a, -b]

\* (high * 2^24 + low) / 2^18 with the bits cut off jammed
ProductJam[high \in Nat, low \in Nat] ==
    Jam[(high + low \div 2^24) * 64 + (low % 2^24) \div 2^18, low % 2^18]

\* ma * mb / 2^18 for ma, mb < 2^24, from the 12-bit halves of ma and mb
ProductParts[a1 \in Nat, a0 \in Nat, b1 \in Nat, b0 \in Nat] ==
    ProductJam[a1 * b1 + (a1 * b0 + a0 * b1) \div 4096,
               a0 * b0 + ((a1 * b0 + a0 * b1) % 4096) * 4096]

Product[ma \in Nat, mb \in Nat] ==
    ProductParts[ma \div 4096, ma % 4096, mb \div 4096, mb % 4096]

mul[a \in Int, b \in Int] ==
    IF a = 0 \/ b = 0 THEN 0
    ELSE IF Abs[a] = INFINITY \/ Abs[b] = INFINITY THEN Sign[a] * Sign[b] * INFINITY
    ELSE Pack[Sign[a] * Sign[b], Product[NormMantissa[a], NormMantissa[b]],
              NormExponent[a] + NormExponent[b] + 18]

\* seven more bits of the quotient: <<quotient, remainder>>
DivStep[qr \in Seq(Nat), mb \in Nat] == <<qr[1] * 128 + (qr[2] * 128) \div mb, (qr[2] * 128) % mb>>

\* ma * 2^28 / mb with the remainder jammed, for 2^23 <= ma, mb < 2^24
Quotient[ma \in Nat, mb \in Nat] ==
    DivStep[DivStep[DivStep[DivStep[<<ma \div mb, ma % mb>>, mb], mb], mb], mb]

JamPair[qr \in Seq(Nat)] == Jam[qr[1], qr[2]]

div[a \in Int, b \in Int] ==
    IF a = 0 \/ Abs[b] = INFINITY THEN 0
    ELSE IF Abs[a] = INFINITY THEN Sign[a] * Sign[b] * INFINITY
    ELSE Pack[Sign[a] * Sign[b], JamPair[Quotient[NormMantissa[a], NormMantissa[b]]],
              NormExponent[a] - NormExponent[b] - 28]

\* high * 2^24 + low as <<high, low>> with low < 2^24
Carry24[high \in Nat, low \in Nat] == <<high + low \div 2^24, low % 2^24>>

\* r * r + c as <<high, low>> with value high * 2^24 + low, for r, c < 2^24
Square[r \in Nat, c \in Nat] ==
    Carry24[(r \div 4096) * (r \div 4096) + (2 * (r \div 4096) * (r % 4096)) \div 4096,
            (r % 4096) * (r % 4096)
                + ((2 * (r \div 4096) * (r % 4096)) % 4096) * 4096 + c]

PairLess[p \in Seq(Nat), q \in Seq(Nat)] == p[1] < q[1] \/ (p[1] = q[1] /\ p[2] < q[2])

\* floor of the square root of N = <<high, low>>, by bisection on lo <= root < hi
RootBetween[N \in Seq(Nat), lo \in Nat, hi \in Nat] ==
    IF hi - lo <= 1 THEN lo
    ELSE LET mid == (lo + hi) \div 2
         IN IF PairLess[N, Square[mid, 0]] THEN RootBetween[N, lo, mid]
                                           ELSE RootBetween[N, mid, hi]

\* the root of N, r its floor: it rounds up exactly when N > r * r + r
SqrtRound[N \in Seq(Nat), r \in Nat, e \in Int] ==
    Pack[1, IF PairLess[Square[r, r], N] THEN r + 1 ELSE r, e]

SqrtOf[N \in Seq(Nat), e \in Int] == SqrtRound[N, RootBetween[N, 2^23, 2^24], e]

\* the root of m * 2^e for 2^23 <= m < 2^24: N is m * 2^24 or m * 2^23, so
\* that the exponent left is even and the root has 24 bits
SqrtNorm[m \in Nat, e \in Int] ==
    IF (e + 300) % 2 = 1 THEN SqrtOf[<<m \div 2, (m % 2) * 2^23>>, (e - 23) \div 2]
                         ELSE SqrtOf[<<m, 0>>, (e - 24) \div 2]

\* f32::sqrt of a >= 0
sqrt[a \in Int] ==
    IF a = 0 \/ a = INFINITY THEN a ELSE SqrtNorm[NormMantissa[a], NormExponent[a]]

\* ---- atan2f of the C library the build links (fdlibm's, in f32 operations)

atanhi == <<1055744824, 1061752794, 1065064542, 1070141402>>
atanlo == <<833369961, 857874792, 856952756, 866263400>>
aT == <<1051372203, -1045220557, 1041385765, -1038323256,
       1035611758, -1033734037, 1032350517, -1030680939,
       1028381273, -1024827937, 1015376343>>

\* the odd and the even part of the polynomial of atanf, z = x * x, w = z * z
atan_s1[z \in Int, w \in Int] ==
    mul[z, add[aT[1], mul[w, add[aT[3], mul[w, add[aT[5], mul[w,
            add[aT[7], mul[w, add[aT[9], mul[w, aT[11]]]]]]]]]]]]

atan_s2[w \in Int] ==
    mul[w, add[aT[2], mul[w, add[aT[4], mul[w, add[aT[6], mul[w,
            add[aT[8], mul[w, aT[10]]]]]]]]]]

\* x * (s1 + s2)
AtanTerm[x \in Int, z \in Int, w \in Int] == mul[x, add[atan_s1[z, w], atan_s2[w]]]

AtanResult[x \in Int, id \in Nat, t \in Int] ==
    IF id = 0 THEN sub[x, t]
    ELSE sub[atanhi[id], sub[sub[t, atanlo[id]], x]]

AtanSquared[x \in Int, id \in Nat, z \in Int] == AtanResult[x, id, AtanTerm[x, z, mul[z, z]]]

\* atanf on the reduced argument x; id = 0 for no reduction
AtanReduced[x \in Int, id \in Nat] == AtanSquared[x, id, mul[x, x]]

\* the interval of ix = |x| >= 0.4375: below 0.6875, 1.1875, 2.4375, or above
AtanInterval[ix \in Nat] ==
    IF ix < 1066926080 THEN (IF ix < 1060110336 THEN 1 ELSE 2)
    ELSE IF ix < 1075576832 THEN 3 ELSE 4

\* the argument reduced to its interval: (2x-1)/(2+x), (x-1)/(x+1),
\* (x-1.5)/(1+1.5x), -1/x
AtanArgument[ix \in Nat, id \in Nat] ==
    IF id = 1 THEN div[sub[mul[from_int[2], ix], from_int[1]], add[from_int[2], ix]]
    ELSE IF id = 2 THEN div[sub[ix, from_int[1]], add[ix, from_int[1]]]
    ELSE IF id = 3 THEN div[sub[ix, div[from_int[3], from_int[2]]],
                            add[from_int[1], mul[div[from_int[3], from_int[2]], ix]]]
    ELSE div[from_int[-1], ix]

AtanOfInterval[ix \in Nat, id \in Nat] == AtanReduced[AtanArgument[ix, id], id]

atan[x \in Int] ==
    IF Abs[x] >= 1275068416 THEN Sign[x] * add[atanhi[4], atanlo[4]]
    ELSE IF Abs[x] < 1054867456 THEN (IF Abs[x] < 822083584 THEN x ELSE AtanReduced[x, 0])
    ELSE Sign[x] * AtanOfInterval[Abs[x], AtanInterval[Abs[x]]]

pi == 1078530011
pi_o_2 == 1070141403
pi_lo == -867941678

\* atan(|y / x|); k is the difference of the exponents of y and x, in units
\* of 2^-23
Atan2Ratio[y \in Int, x \in Int, k \in Int] ==
    IF k >= 61 * 2^23 THEN add[pi_o_2, mul[div[from_int[1], from_int[2]], pi_lo]]
    ELSE IF x < 0 /\ k < -60 * 2^23 THEN 0
    ELSE atan[Abs[div[y, x]]]

\* the quadrant of (x, y) applied to z = atan(|y / x|)
Atan2Quadrant[y \in Int, x \in Int, z \in Int] ==
    IF x > 0 THEN Sign[y] * z
    ELSE IF y > 0 THEN sub[pi, sub[z, pi_lo]]
    ELSE sub[sub[z, pi_lo], pi]

\* f32::atan2
atan2[y \in Int, x \in Int] ==
    IF x = from_int[1] THEN atan[y]
    ELSE IF y = 0 THEN (IF x < 0 THEN pi ELSE 0)
    ELSE IF x = 0 THEN Sign[y] * pi_o_2
    ELSE Atan2Quadrant[y, x, Atan2Ratio[y, x, Abs[y] - Abs[x]]]

\* ---- natural numbers of any size: sequences of 15-bit limbs, lowest first

Limb[a \in Seq(Nat), i \in Nat] == IF i <= Len(a) THEN a[i] ELSE 0

BigTrim[a \in Seq(Nat)] ==
    IF a = <<>> \/ a[Len(a)] # 0 THEN a ELSE BigTrim[SubSeq(a, 1, Len(a) - 1)]

AddFrom[a \in Seq(Nat), b \in Seq(Nat), i \in Nat, carry \in Nat] ==
    IF i > Len(a) /\ i > Len(b) THEN (IF carry = 0 THEN <<>> ELSE <<carry>>)
    ELSE LET t == Limb[a, i] + Limb[b, i] + carry
         IN <<t % 2^15>> \o AddFrom[a, b, i + 1, t \div 2^15]

BigAdd[a \in Seq(Nat), b \in Seq(Nat)] == AddFrom[a, b, 1, 0]

\* a - b for a >= b
SubFrom[a \in Seq(Nat), b \in Seq(Nat), i \in Nat, borrow \in Nat] ==
    IF i > Len(a) THEN <<>>
    ELSE LET t == a[i] - Limb[b, i] - borrow
         IN IF t < 0 THEN <<t + 2^15>> \o SubFrom[a, b, i + 1, 1]
                     ELSE <<t>> \o SubFrom[a, b, i + 1, 0]

BigSub[a \in Seq(Nat), b \in Seq(Nat)] == BigTrim[SubFrom[a, b, 1, 0]]

\* a < b, both without leading zero limbs; i runs down from the top limb
LessFrom[a \in Seq(Nat), b \in Seq(Nat), i \in Nat] ==
    IF i = 0 THEN FALSE
    ELSE IF a[i] # b[i] THEN a[i] < b[i]
    ELSE LessFrom[a, b, i - 1]

BigLess[a \in Seq(Nat), b \in Seq(Nat)] ==
    IF Len(a) # Len(b) THEN Len(a) < Len(b) ELSE LessFrom[a, b, Len(a)]

\* a * k for k < 2^15
MulSmallFrom[a \in Seq(Nat), k \in Nat, i \in Nat, carry \in Nat] ==
    IF i > Len(a) THEN (IF carry = 0 THEN <<>> ELSE <<carry>>)
    ELSE LET t == a[i] * k + carry
         IN <<t % 2^15>> \o MulSmallFrom[a, k, i + 1, t \div 2^15]

MulFrom[a \in Seq(Nat), b \in Seq(Nat), j \in Nat] ==
    IF j > Len(b) THEN <<>>
    ELSE BigAdd[MulSmallFrom[a, b[j], 1, 0], <<0>> \o MulFrom[a, b, j + 1]]

BigMul[a \in Seq(Nat), b \in Seq(Nat)] == BigTrim[MulFrom[a, b, 1]]

\* a * 2^d
BigShl[a \in Seq(Nat), d \in Nat] ==
    IF a = <<>> THEN a
    ELSE [i \in 1..(d \div 15) |-> 0] \o MulSmallFrom[a, 2^(d % 15), 1, 0]

\* floor(a / 2^d)
BigShr[a \in Seq(Nat), d \in Nat] ==
    LET n == d \div 15
        r == d % 15
    IN IF n >= Len(a) THEN <<>>
       ELSE BigTrim[[i \in 1..(Len(a) - n) |->
                a[i + n] \div 2^r + (Limb[a, i + n + 1] % 2^r) * 2^(15 - r)]]

BigLen[a \in Seq(Nat)] == IF a = <<>> THEN 0 ELSE 15 * (Len(a) - 1) + BitLen[a[Len(a)]]

BigBit[a \in Seq(Nat), i \in Nat] == (Limb[a, i \div 15 + 1] \div 2^(i % 15)) % 2

\* the lowest d bits of a are zero
BigLowZero[a \in Seq(Nat), d \in Nat] ==
    /\ \A i \in 1..(d \div 15) : Limb[a, i] = 0
    /\ Limb[a, d \div 15 + 1] % 2^(d % 15) = 0

BigFromInt[n \in Nat] == BigTrim[<<n % 2^15, (n \div 2^15) % 2^15, n \div 2^30>>]

\* a < 2^31
BigToInt[a \in Seq(Nat)] == Limb[a, 1] + Limb[a, 2] * 2^15 + Limb[a, 3] * 2^30

\* ---- binary64 values as [s, m, e] with value s * m * 2^e, m with at most 53 bits

Binary64 == [s : {-1, 1}, m : Seq(Nat), e : Int]

\* x with its mantissa cut by d bits to q and rounded, ties to even
DRoundUp[x \in Binary64, d \in Nat, q \in Seq(Nat)] ==
    [s |-> x.s,
     m |-> IF BigBit[x.m, d - 1] = 1 /\ (~BigLowZero[x.m, d - 1] \/ BigBit[q, 0] = 1)
           THEN BigAdd[q, <<1>>] ELSE q,
     e |-> x.e + d]

DRoundAt[x \in Binary64, d \in Nat] == DRoundUp[x, d, BigShr[x.m, d]]

\* round a mantissa of any size to 53 bits, ties to even
DRound[x \in Binary64] ==
    IF BigLen[x.m] <= 53 THEN x ELSE DRoundAt[x, BigLen[x.m] - 53]

DProduct[x \in Binary64, y \in Binary64] == [s |-> x.s * y.s, m |-> BigMul[x.m, y.m], e |-> x.e + y.e]

\* sx * mx * 2^e + sy * my * 2^e
DSumAligned[sx \in Int, mx \in Seq(Nat), sy \in Int, my \in Seq(Nat), e \in Int] ==
    IF sx = sy THEN [s |-> sx, m |-> BigAdd[mx, my], e |-> e]
    ELSE IF BigLess[mx, my] THEN [s |-> sy, m |-> BigSub[my, mx], e |-> e]
    ELSE [s |-> sx, m |-> BigSub[mx, my], e |-> e]

DSumAt[x \in Binary64, y \in Binary64, e \in Int] ==
    DSumAligned[x.s, BigShl[x.m, x.e - e], y.s, BigShl[y.m, y.e - e], e]

\* x + y, exact
DSum[x \in Binary64, y \in Binary64] ==
    IF x.m = <<>> THEN y
    ELSE IF y.m = <<>> THEN x
    ELSE DSumAt[x, y, IF x.e < y.e THEN x.e ELSE y.e]

dmul[x \in Binary64, y \in Binary64] == DRound[DProduct[x, y]]
fma[x \in Binary64, y \in Binary64, z \in Binary64] == DRound[DSum[DProduct[x, y], z]]

\* f32 to binary64, exact
DFromF32[v \in Int] == [s |-> Sign[v], m |-> BigFromInt[Mantissa[v]], e |-> Exponent[v]]
DFromInt[n \in Int] == [s |-> Sign[n], m |-> BigFromInt[Abs[n]], e |-> 0]
DNeg[x \in Binary64] == [s |-> -x.s, m |-> x.m, e |-> x.e]

DToF32At[x \in Binary64, d \in Nat] ==
    Pack[x.s, Jam[BigToInt[BigShr[x.m, d]], IF BigLowZero[x.m, d] THEN 0 ELSE 1], x.e + d]

\* binary64 to f32
DToF32[x \in Binary64] ==
    IF BigLen[x.m] <= 29 THEN Pack[x.s, BigToInt[x.m], x.e]
    ELSE DToF32At[x, BigLen[x.m] - 29]

\* binary64 to int32, truncating toward zero
DTrunc[x \in Binary64] ==
    IF x.e >= 0 THEN x.s * BigToInt[BigShl[x.m, x.e]]
    ELSE x.s * BigToInt[BigShr[x.m, -x.e]]

\* ---- sinf and cosf of the C library the build links (binary64 arithmetic
\* with fused multiply-add, the result rounded to f32)

hpi_inv == [s |-> 1, m |-> <<18563, 23443, 31937, 162>>, e |-> -29]
hpi == [s |-> 1, m |-> <<1443, 21777, 4349, 25>>, e |-> -49]
sincos_c == <<[s |-> 1, m |-> <<1>>, e |-> 0],
              [s |-> -1, m |-> <<6279, 32390, 32767, 63>>, e |-> -52],
              [s |-> 1, m |-> <<3865, 16909, 21839, 170>>, e |-> -57],
              [s |-> -1, m |-> <<13725, 20788, 543, 182>>, e |-> -62],
              [s |-> 1, m |-> <<30915, 1271, 19724, 204>>, e |-> -68]>>
sincos_s == <<[s |-> -1, m |-> <<9731, 13099, 21841, 170>>, e |-> -55],
              [s |-> 1, m |-> <<17137, 657, 4214, 34>>, e |-> -57],
              [s |-> -1, m |-> <<13257, 7098, 5355, 51>>, e |-> -63]>>

FloorDiv[n \in Int, d \in Nat] == IF n >= 0 THEN n \div d ELSE -((-n + d - 1) \div d)
Mod4[n \in Int] == n - 4 * FloorDiv[n, 4]

\* the cosine's coefficients, negated in the quadrants where flip holds
sincos_c_of[flip \in BOOLEAN, i \in Nat] == IF flip THEN DNeg[sincos_c[i]] ELSE sincos_c[i]

sin_poly[x \in Binary64, x2 \in Binary64, x3 \in Binary64] ==
    DToF32[fma[dmul[x3, x2], fma[x2, sincos_s[3], sincos_s[2]], fma[x3, sincos_s[1], x]]]

cos_poly[x2 \in Binary64, x4 \in Binary64, flip \in BOOLEAN] ==
    DToF32[fma[dmul[x4, x2],
               fma[x2, sincos_c_of[flip, 5], sincos_c_of[flip, 4]],
               fma[x4, sincos_c_of[flip, 3],
                   fma[x2, sincos_c_of[flip, 2], sincos_c_of[flip, 1]]]]]

\* the polynomial on the reduced argument x, x2 = x * x, in quadrant n
sinf_poly[x \in Binary64, x2 \in Binary64, n \in Int, flip \in BOOLEAN] ==
    IF Mod4[n] \in {0, 2} THEN sin_poly[x, x2, dmul[x, x2]]
                          ELSE cos_poly[x2, dmul[x2, x2], flip]

\* the quadrant n of y, and y - n * pi/2
reduce_n[y \in Int] == FloorDiv[DTrunc[dmul[DFromF32[y], hpi_inv]] + 2^23, 2^24]
reduce_x[y \in Int, n \in Int] == fma[DFromInt[-n], hpi, DFromF32[y]]

\* x the reduced argument of quadrant n
SinCosReduced[x \in Binary64, n \in Int, shift \in Nat] ==
    sinf_poly[IF Mod4[n] \in {1, 2} THEN DNeg[x] ELSE x, dmul[x, x], n + shift,
              Mod4[n] \in {2, 3}]

SinCosQuadrant[y \in Int, n \in Int, shift \in Nat] ==
    SinCosReduced[reduce_x[y, n], n, shift]

\* sinf (shift 0) and cosf (shift 1) of y, |y| >= 2^-12
SinCos[y \in Int, shift \in Nat] ==
    IF Abs[y] < 1061158912
    THEN sinf_poly[DFromF32[y], dmul[DFromF32[y], DFromF32[y]], shift, FALSE]
    ELSE SinCosQuadrant[y, reduce_n[y], shift]

\* f32::sin and f32::cos, for |y| < 120
sin[y \in Int] == IF Abs[y] < 964689920 THEN y ELSE SinCos[y, 0]
cos[y \in Int] == IF Abs[y] < 964689920 THEN from_int[1] ELSE SinCos[y, 1]

\* ------------------------------------------------------------------ geometry
None == 0

Point(x, y) == [x |-> x, y |-> y]

\* f32::powi(2)
powi2[x \in Int] == mul[x, x]

\* Point::distance
distance(a, b) == sqrt[add[powi2[sub[a.x, b.x]], powi2[sub[a.y, b.y]]]]

\* ------------------------------------------------------------------ nodes
Node(point, parent, cost) == [point |-> point, parent |-> parent, cost |-> cost]

VARIABLES
    nodes,            \* RRTStar.nodes
    goal,             \* RRTStar.goal
    step_size,        \* RRTStar.step_size
    goal_threshold,   \* RRTStar.goal_threshold
    search_radius,    \* RRTStar.search_radius
    best_cost,        \* RRTStar.best_cost
    optimal_path,     \* main: optimal_path
    iterations,       \* main: iterations
    max_iterations,   \* main: max_iterations
    rand_point,       \* main: rand_point of the current iteration
    nearest_index,    \* main: nearest_index of the current iteration
    new_point,        \* main: new_point of the current iteration
    new_node_index,   \* main: new_node_index of the current iteration
    pc,               \* position of main in its loop
    start,            \* the start argument of RRTStar::new
    inserted_cost,    \* history: the cost each node was inserted with
    improved,         \* history: last value returned by update_best_path
    only_goal_sampled \* history: every sample so far was the goal point

vars == <<nodes, goal, step_size, goal_threshold, search_radius, best_cost,
          optimal_path, iterations, max_iterations, rand_point, nearest_index,
          new_point, new_node_index, pc, start, inserted_cost, improved,
          only_goal_sampled>>

\* ------------------------------------------------------------------ inputs
\* rng.gen_range(0.0..400.0) on a random word whose 23 high bits are k:
\* (k / 2^23) * 400.0 + 0.0
gen_range[k \in Nat] == mul[Pack[1, k, -23], from_int[400]]

\* RRTStar::new is called by main with these three values
MainStepSize == from_int[10]
MainGoalThreshold == from_int[10]
MainSearchRadius == from_int[15]

\* start and goal points main may draw, and the points random_point may
\* return.  The starts are the corner (0,0), (12.60457,6.361103), which
\* has samples on every side and the goal within goal_threshold, and
\* (200,300); the goal is (18.786287,6.2211037); the samples are (0,0),
\* (12.5,0), (12.616205,25.055552) and (24.947596,6.264925)
Starts == {Point(gen_range[0], gen_range[0]),
           Point(gen_range[264337], gen_range[133402]),
           Point(gen_range[4194304], gen_range[6291456])}
Goals == {Point(gen_range[393977], gen_range[130466])}
SamplePoints == {Point(gen_range[0], gen_range[0]),
                 Point(gen_range[262144], gen_range[0]),
                 Point(gen_range[264581], gen_range[525453]),
                 Point(gen_range[523189], gen_range[131385])}

\* the fixed-sample runs: start (0,0), goal (100,0), and a sampler that
\* returns the same point every time: the goal, (0,200), or
\* (28.444433,241.77776)
ScenarioStart == Point(from_int[0], from_int[0])
ScenarioGoal == Point(from_int[100], from_int[0])
ScenarioPoints == {Point(from_int[100], from_int[0]),
                   Point(from_int[0], from_int[200]),
                   Point(gen_range[596523], gen_range[5070447])}

\* arguments RRTStar::new accepts: any f32, positive or not
ConfigValues == {from_int[-10], from_int[0], from_int[10]}
ConfigRadii == {from_int[-15], from_int[0], from_int[15]}

\* ------------------------------------------------------------------ RRTStar
\* RRTStar::new: one root node, no parent, cost 0
new(s) == <<Node(s, None, from_int[0])>>

\* the scan of find_nearest with the comparison turned round
RECURSIVE MinByReversed(_, _, _, _)
MinByReversed(ns, point, best, i) ==
    IF i > Len(ns) THEN best
    ELSE IF best = None \/ distance(ns[i].point, point) > distance(ns[best].point, point)
         THEN MinByReversed(ns, point, i, i + 1)
         ELSE MinByReversed(ns, point, best, i + 1)

\* Iterator::min_by over the nodes from index i on, `best` the minimum so
\* far: a later element replaces it only when it compares Greater
RECURSIVE MinBy(_, _, _, _)
MinBy(ns, point, best, i) ==
    IF i > Len(ns) THEN best
    ELSE IF best = None \/ distance(ns[best].point, point) > distance(ns[i].point, point)
         THEN MinBy(ns, point, i, i + 1)
         ELSE MinBy(ns, point, best, i + 1)

\* RRTStar::find_nearest, before the final unwrap: None on an empty tree
find_nearest(ns, point) == MinBy(ns, point, None, 1)

\* steer with cos and sin exchanged
steer_swapped(from, to, step) ==
    LET angle == atan2[sub[to.y, from.y], sub[to.x, from.x]]
    IN [x |-> add[from.x, mul[step, sin[angle]]],
        y |-> add[from.y, mul[step, cos[angle]]]]

\* RRTStar::steer
steer(from, to, step) ==
    LET angle == atan2[sub[to.y, from.y], sub[to.x, from.x]]
    IN [x |-> add[from.x, mul[step, cos[angle]]],
        y |-> add[from.y, mul[step, sin[angle]]]]

\* RRTStar::is_collision_free
is_collision_free(point) == TRUE

\* add_node that forgets the cost of the parent
add_node_edge_cost(ns, point, parent_index) ==
    Append(ns, Node(point, parent_index, distance(point, ns[parent_index].point)))

\* RRTStar::add_node: the nodes after the push (the new index is their length)
add_node(ns, point, parent_index) ==
    LET cost == add[ns[parent_index].cost, distance(point, ns[parent_index].point)]
    IN Append(ns, Node(point, parent_index, cost))

\* near with <= self.search_radius for < self.search_radius
near_inclusive(ns, index, radius) ==
    SelectSeq([i \in 1..Len(ns) |-> i],
              LAMBDA i: i # index /\ distance(ns[i].point, ns[index].point) <= radius)

\* RRTStar::near: the indices, in increasing order
near(ns, index, radius) ==
    SelectSeq([i \in 1..Len(ns) |-> i],
              LAMBDA i: i # index /\ distance(ns[i].point, ns[index].point) < radius)

\* RRTStar::rewire: the loop over the neighbours, from position k on
RECURSIVE RewireFrom(_, _, _, _, _)
RewireFrom(ns, index, new_node, neighbors, k) ==
    IF k > Len(neighbors) THEN ns
    ELSE LET neighbor_index == neighbors[k]
             neighbor == ns[neighbor_index]
             new_cost == add[new_node.cost, distance(new_node.point, neighbor.point)]
         IN IF new_cost < neighbor.cost
            THEN RewireFrom([ns EXCEPT ![neighbor_index].parent = index,
                                       ![neighbor_index].cost = new_cost],
                            index, new_node, neighbors, k + 1)
            ELSE RewireFrom(ns, index, new_node, neighbors, k + 1)

\* rewire with new_cost <= neighbor.cost for new_cost < neighbor.cost
rewire_nonstrict(ns, index, radius) ==
    LET new_node == ns[index]
    IN [i \in 1..Len(ns) |->
          LET new_cost == add[new_node.cost, distance(new_node.point, ns[i].point)]
          IN IF /\ i # index
                /\ distance(ns[i].point, new_node.point) < radius
                /\ new_cost <= ns[i].cost
             THEN [ns[i] EXCEPT !.parent = index, !.cost = new_cost]
             ELSE ns[i]]

\* rewire over every other node, whatever its distance
rewire_unbounded(ns, index, radius) ==
    RewireFrom(ns, index, ns[index],
               SelectSeq([i \in 1..Len(ns) |-> i], LAMBDA i: i # index), 1)

\* rewire without the test new_cost < neighbor.cost
rewire_ungated(ns, index, radius) ==
    LET new_node == ns[index]
    IN [i \in 1..Len(ns) |->
          IF i # index /\ distance(ns[i].point, new_node.point) < radius
          THEN [ns[i] EXCEPT !.parent = index,
                             !.cost = add[new_node.cost,
                                          distance(new_node.point, ns[i].point)]]
          ELSE ns[i]]

\* rewire that lowers the cost of a neighbour and leaves its parent
rewire_keeps_parent(ns, index, radius) ==
    LET new_node == ns[index]
    IN [i \in 1..Len(ns) |->
          LET new_cost == add[new_node.cost, distance(new_node.point, ns[i].point)]
          IN IF /\ i # index
                /\ distance(ns[i].point, new_node.point) < radius
                /\ new_cost < ns[i].cost
             THEN [ns[i] EXCEPT !.cost = new_cost]
             ELSE ns[i]]

rewire(ns, index, radius) ==
    RewireFrom(ns, index, ns[index], near(ns, index, radius), 1)

\* update_best_path without the test last_node.cost < self.best_cost
update_best_path_any_cost(ns, g, threshold, best) ==
    distance(ns[Len(ns)].point, g) < threshold

\* update_best_path without the test distance_to_goal < self.goal_threshold
update_best_path_any_point(ns, g, threshold, best) ==
    ns[Len(ns)].cost < best

\* RRTStar::update_best_path: the value it returns
update_best_path(ns, g, threshold, best) ==
    LET last_node == ns[Len(ns)]
        distance_to_goal == distance(last_node.point, g)
    IN distance_to_goal < threshold /\ last_node.cost < best

\* RRTStar::trace_path: the while loop returns iff the parent chain of the
\* newest node reaches a node without parent; `fuel` nodes are left to visit
RECURSIVE ChainEnds(_, _, _)
ChainEnds(ns, current, fuel) ==
    IF ns[current].parent = None THEN TRUE
    ELSE IF fuel = 0 THEN FALSE
    ELSE ChainEnds(ns, ns[current].parent, fuel - 1)

trace_path_returns(ns) == ChainEnds(ns, Len(ns), Len(ns))

\* the while loop of trace_path without the push that follows it
RECURSIVE TraceFromSkipsRoot(_, _, _)
TraceFromSkipsRoot(ns, current_node_index, path) ==
    IF ns[current_node_index].parent # None
    THEN TraceFromSkipsRoot(ns, ns[current_node_index].parent,
                            Append(path, ns[current_node_index].point))
    ELSE path

RECURSIVE TraceFrom(_, _, _)
TraceFrom(ns, current_node_index, path) ==
    IF ns[current_node_index].parent # None
    THEN TraceFrom(ns, ns[current_node_index].parent,
                   Append(path, ns[current_node_index].point))
    ELSE Append(path, ns[current_node_index].point)

Reverse(s) == [i \in 1..Len(s) |-> s[Len(s) + 1 - i]]

\* trace_path without path.reverse()
trace_path_unreversed(ns) == TraceFrom(ns, Len(ns), <<>>)

trace_path(ns) == Reverse(TraceFrom(ns, Len(ns), <<>>))

\* ------------------------------------------------------------------ main
InitWith(s, g, step, threshold, radius, budget) ==
    /\ start = s
    /\ nodes = new(s)
    /\ goal = g
    /\ step_size = step
    /\ goal_threshold = threshold
    /\ search_radius = radius
    /\ best_cost = INFINITY
    /\ optimal_path = <<>>
    /\ iterations = 0
    /\ max_iterations = budget
    /\ rand_point = s
    /\ nearest_index = None
    /\ new_point = s
    /\ new_node_index = None
    /\ pc = "loop"
    /\ inserted_cost = <<from_int[0]>>
    /\ improved = FALSE
    /\ only_goal_sampled = TRUE

Init ==
    \E s \in Starts, g \in Goals:
        InitWith(s, g, MainStepSize, MainGoalThreshold, MainSearchRadius, MaxIterations)

InitScenario ==
    InitWith(ScenarioStart, ScenarioGoal, MainStepSize, MainGoalThreshold,
             MainSearchRadius, ScenarioIterations)

InitConfig ==
    \E g \in Goals, step \in ConfigValues, threshold \in ConfigValues,
       radius \in ConfigRadii:
        InitWith(Point(gen_range[0], gen_range[0]), g, step, threshold, radius,
                 ConfigIterations)

\* the first half of an iteration with the collision test negated
SampleGateInverted(p) ==
    /\ pc = "loop"
    /\ iterations < max_iterations
    /\ rand_point' = p
    /\ nearest_index' = find_nearest(nodes, p)
    /\ IF nearest_index' = None
       THEN new_point' = new_point /\ pc' = "panic"
       ELSE /\ new_point' = steer(nodes[nearest_index'].point, p, step_size)
            /\ pc' = IF ~is_collision_free(new_point') THEN "add_node" ELSE "next_frame"
    /\ only_goal_sampled' = (only_goal_sampled /\ p = goal)
    /\ UNCHANGED <<nodes, goal, step_size, goal_threshold, search_radius, best_cost,
                   optimal_path, iterations, max_iterations, new_node_index, start,
                   inserted_cost, improved>>

\* random_point, find_nearest, steer and the collision test of one
\* iteration; the unwrap of find_nearest panics on None
Sample(p) ==
    /\ pc = "loop"
    /\ iterations < max_iterations
    /\ rand_point' = p
    /\ nearest_index' = find_nearest(nodes, p)
    /\ IF nearest_index' = None
       THEN new_point' = new_point /\ pc' = "panic"
       ELSE /\ new_point' = steer(nodes[nearest_index'].point, p, step_size)
            /\ pc' = IF is_collision_free(new_point') THEN "add_node" ELSE "next_frame"
    /\ only_goal_sampled' = (only_goal_sampled /\ p = goal)
    /\ UNCHANGED <<nodes, goal, step_size, goal_threshold, search_radius, best_cost,
                   optimal_path, iterations, max_iterations, new_node_index, start,
                   inserted_cost, improved>>

\* an iteration of a run whose sampler returns the same point every time
SampleFixed(p) ==
    /\ iterations > 0 => p = rand_point
    /\ Sample(p)

AddNode ==
    /\ pc = "add_node"
    /\ nodes' = add_node(nodes, new_point, nearest_index)
    /\ new_node_index' = Len(nodes')
    /\ inserted_cost' = Append(inserted_cost, nodes'[Len(nodes')].cost)
    /\ pc' = "rewire"
    /\ UNCHANGED <<goal, step_size, goal_threshold, search_radius, best_cost,
                   optimal_path, iterations, max_iterations, rand_point,
                   nearest_index, new_point, start, improved, only_goal_sampled>>

Rewire ==
    /\ pc = "rewire"
    /\ nodes' = rewire(nodes, new_node_index, search_radius)
    /\ pc' = "update_best_path"
    /\ UNCHANGED <<goal, step_size, goal_threshold, search_radius, best_cost,
                   optimal_path, iterations, max_iterations, rand_point,
                   nearest_index, new_point, new_node_index, start, inserted_cost,
                   improved, only_goal_sampled>>

\* the step of main with the path traced whatever update_best_path returns
UpdateBestPathAlwaysTraced ==
    /\ pc = "update_best_path"
    /\ improved' = update_best_path(nodes, goal, goal_threshold, best_cost)
    /\ best_cost' = IF improved' THEN nodes[Len(nodes)].cost ELSE best_cost
    /\ trace_path_returns(nodes)
    /\ optimal_path' = trace_path(nodes)
    /\ pc' = "next_frame"
    /\ UNCHANGED <<nodes, goal, step_size, goal_threshold, search_radius,
                   iterations, max_iterations, rand_point, nearest_index, new_point,
                   new_node_index, start, inserted_cost, only_goal_sampled>>

\* if rrt_star.update_best_path() { optimal_path = rrt_star.trace_path(); }
UpdateBestPath ==
    /\ pc = "update_best_path"
    /\ improved' = update_best_path(nodes, goal, goal_threshold, best_cost)
    /\ IF improved'
       THEN /\ best_cost' = nodes[Len(nodes)].cost
            /\ trace_path_returns(nodes)
            /\ optimal_path' = trace_path(nodes)
       ELSE UNCHANGED <<best_cost, optimal_path>>
    /\ pc' = "next_frame"
    /\ UNCHANGED <<nodes, goal, step_size, goal_threshold, search_radius,
                   iterations, max_iterations, rand_point, nearest_index, new_point,
                   new_node_index, start, inserted_cost, only_goal_sampled>>

\* next_frame().await; iterations += 1
NextFrame ==
    /\ pc = "next_frame"
    /\ iterations' = iterations + 1
    /\ pc' = "loop"
    /\ UNCHANGED <<nodes, goal, step_size, goal_threshold, search_radius, best_cost,
                   optimal_path, max_iterations, rand_point, nearest_index, new_point,
                   new_node_index, start, inserted_cost, improved, only_goal_sampled>>

\* a loop that also stops once a path is found
BreakOnPath ==
    /\ pc = "loop"
    /\ (iterations >= max_iterations \/ best_cost < INFINITY)
    /\ pc' = "done"
    /\ UNCHANGED <<nodes, goal, step_size, goal_threshold, search_radius, best_cost,
                   optimal_path, iterations, max_iterations, rand_point,
                   nearest_index, new_point, new_node_index, start, inserted_cost,
                   improved, only_goal_sampled>>

\* if iterations >= max_iterations { break; }
Break ==
    /\ pc = "loop"
    /\ iterations >= max_iterations
    /\ pc' = "done"
    /\ UNCHANGED <<nodes, goal, step_size, goal_threshold, search_radius, best_cost,
                   optimal_path, iterations, max_iterations, rand_point,
                   nearest_index, new_point, new_node_index, start, inserted_cost,
                   improved, only_goal_sampled>>

Step == AddNode \/ Rewire \/ UpdateBestPath \/ NextFrame \/ Break

Next == (\E p \in SamplePoints: Sample(p)) \/ Step

NextScenario == (\E p \in ScenarioPoints: SampleFixed(p)) \/ Step

Spec == Init /\ [][Next]_vars

SpecScenario == InitScenario /\ [][NextScenario]_vars

SpecConfig == InitConfig /\ [][Next]_vars

\* main is sequential code: as long as a step is possible, one is taken
SpecFair == InitScenario /\ [][NextScenario]_vars /\ WF_vars(NextScenario)

\* ------------------------------------------------------------------ claims
HasParent(i) == nodes[i].parent # None

Parent(i) == nodes[nodes[i].parent]

EdgeLength(i) == distance(nodes[i].point, Parent(i).point)

\* C1: every node with a parent has cost = (stored cost of its parent) +
\* distance to its parent, after every add_node and after every rewire.
C1_CostConsistent ==
    \A i \in 1..Len(nodes):
        HasParent(i) => nodes[i].cost = add[Parent(i).cost, EdgeLength(i)]

\* a rewire has just run and left some node with a cost above parent + edge
StaleAfterRewire ==
    /\ pc = "update_best_path"
    /\ \E i \in 1..Len(nodes):
           HasParent(i) /\ nodes[i].cost > add[Parent(i).cost, EdgeLength(i)]

\* the parent chain of i ends at node 1 (index 0 of the program) without
\* visiting a node twice
RECURSIVE ReachesRoot(_, _)
ReachesRoot(i, visited) ==
    IF nodes[i].parent = None THEN i = 1
    ELSE /\ nodes[i].parent \notin visited \cup {i}
         /\ ReachesRoot(nodes[i].parent, visited \cup {i})

RECURSIVE Ancestors(_, _)
Ancestors(i, fuel) ==
    IF nodes[i].parent = None \/ fuel = 0 THEN {}
    ELSE {nodes[i].parent} \cup Ancestors(nodes[i].parent, fuel - 1)

\* C2: the parent links form a tree rooted at the first node: every parent
\* chain reaches the parentless node without a repeat, no ancestor of the
\* node just rewired has it as parent, and trace_path returns.
C2_Acyclic ==
    /\ \A i \in 1..Len(nodes): ReachesRoot(i, {})
    /\ pc = "update_best_path" =>
           \A a \in Ancestors(new_node_index, Len(nodes)):
               nodes[a].parent # new_node_index
    /\ trace_path_returns(nodes)

\* a rewire re-parented a node while another node carries a stale cost
C2_Witness ==
    /\ StaleAfterRewire
    /\ \E i \in 1..Len(nodes): nodes[i].parent = new_node_index

\* C3: the first node is the start point with no parent and cost 0, and it
\* is the only node without parent.
C3_UniqueRoot ==
    /\ Len(nodes) >= 1
    /\ nodes[1] = Node(start, None, from_int[0])
    /\ \A i \in 2..Len(nodes): nodes[i].parent # None

\* rewire has run on a node that has the root within search_radius
C3_Witness ==
    /\ pc = "update_best_path"
    /\ distance(nodes[1].point, nodes[new_node_index].point) < search_radius
    /\ \E i \in 2..Len(nodes): nodes[i].parent = new_node_index

\* node i is within goal_threshold of the goal
Qualifies(i) == distance(nodes[i].point, goal) < goal_threshold

\* C4: best_cost starts at +infinity, never increases, and once finite stays
\* finite.
C4_BestCostMonotone ==
    /\ best_cost = INFINITY
    /\ [][/\ best_cost' <= best_cost
          /\ best_cost < INFINITY => best_cost' < INFINITY]_vars

\* best_cost was finite and then lowered: an earlier qualifying node was
\* inserted with a higher cost than the later one that set best_cost
C4_Witness ==
    /\ pc = "next_frame"
    /\ best_cost < INFINITY
    /\ \E i, j \in 2..Len(nodes):
           /\ i < j
           /\ inserted_cost[i] > inserted_cost[j]
           /\ inserted_cost[j] = best_cost
           /\ Qualifies(i) /\ Qualifies(j)

\* main is between two iterations
AtLoop == pc \in {"loop", "done"}

\* C5 as stated: the tracker is SEARCHING (best_cost infinite, no cached
\* path) exactly while no node of the tree is within goal_threshold of the
\* goal.
C5_SearchingIffNoNode ==
    AtLoop => ((best_cost = INFINITY /\ optimal_path = <<>>)
                  <=> ~ \E i \in 1..Len(nodes): Qualifies(i))

\* C5, amended: between iterations the tracker is SEARCHING exactly while no
\* inserted node (any node but the root) is within goal_threshold of the
\* goal; it never returns to SEARCHING; the cached path becomes the traced
\* path in a step where best_cost decreases and is unchanged in every other
\* step.
C5_Tracker ==
    /\ [](/\ (best_cost = INFINITY) <=> (optimal_path = <<>>)
          /\ AtLoop => ((best_cost = INFINITY)
                           <=> ~ \E i \in 2..Len(nodes): Qualifies(i)))
    /\ [][/\ best_cost < INFINITY => best_cost' < INFINITY
          /\ best_cost' < best_cost => optimal_path' = trace_path(nodes')
          /\ ~(best_cost' < best_cost) => optimal_path' = optimal_path]_vars

\* the tracker had a path and replaced it: an earlier inserted node qualifies
\* and the newest node has just improved on it
C5_Witness ==
    /\ pc = "next_frame"
    /\ improved
    /\ optimal_path = trace_path(nodes)
    /\ \E i \in 2..(Len(nodes) - 1): Qualifies(i)

\* number of parent links from i to the parentless node
RECURSIVE Depth(_)
Depth(i) == IF nodes[i].parent = None THEN 0 ELSE 1 + Depth(nodes[i].parent)

\* the node k parent links above i
RECURSIVE AncestorAt(_, _)
AncestorAt(i, k) == IF k = 0 THEN i ELSE AncestorAt(nodes[i].parent, k - 1)

\* C6: trace_path returns at least one point, the root's point first, the
\* newest node's point last, and in between the points of the newest node's
\* parent chain in root-to-node order; on a fresh tree, the root point alone.
C6_TracePathShape ==
    LET path == trace_path(nodes)
        last == Len(nodes)
    IN /\ Len(path) >= 1
       /\ path[1] = nodes[1].point
       /\ path[Len(path)] = nodes[last].point
       /\ Len(path) = Depth(last) + 1
       /\ \A j \in 1..Len(path):
              path[j] = nodes[AncestorAt(last, Len(path) - j)].point
       /\ Len(nodes) = 1 => path = <<start>>

\* the traced chain has inner nodes and passes through a re-parented node
C6_Witness ==
    /\ Len(trace_path(nodes)) >= 3
    /\ \E i \in 2..Len(nodes):
           /\ i \in Ancestors(Len(nodes), Len(nodes))
           /\ nodes[i].parent > i

\* C7: a planner exists only if step_size, goal_threshold and search_radius
\* are all strictly positive; otherwise construction fails and there is no
\* tree.
C7_ConstructionValidated ==
    (step_size <= 0 \/ goal_threshold <= 0 \/ search_radius <= 0)
        => Len(nodes) = 0

\* C8 as stated: with every sample at the goal (100,0), best_cost is 90 once
\* it is finite.
C8_BestCostNinety ==
    (only_goal_sampled /\ best_cost < INFINITY) => best_cost = from_int[90]

\* C8, amended: with every sample at the goal (100,0), best_cost is +infinity
\* as long as no node is at distance < 10 of the goal, which lasts through
\* the first 9 steps; the 10th step adds the node (100,0) with cost 100 and
\* best_cost is 100 from then on.
C8_FixedSample ==
    only_goal_sampled =>
        /\ (\A i \in 1..Len(nodes): ~Qualifies(i)) => best_cost = INFINITY
        /\ (AtLoop /\ iterations < 10) =>
               /\ best_cost = INFINITY
               /\ \A i \in 1..Len(nodes): ~Qualifies(i)
        /\ (AtLoop /\ iterations >= 10) =>
               /\ best_cost = from_int[100]
               /\ nodes[11] = Node(Point(from_int[100], from_int[0]), 10, from_int[100])

\* ten fixed-sample steps are done
C8_Witness ==
    /\ only_goal_sampled
    /\ pc = "loop"
    /\ iterations = 10
    /\ best_cost < INFINITY

\* nodes added so far by the current and the earlier iterations
Added == iterations + (IF pc \in {"rewire", "update_best_path", "next_frame"}
                       THEN 1 ELSE 0)

\* C9: the tree has 1 node at construction and 1 + k nodes after k
\* iterations; a step that adds a node adds one, at the end, with the nearest
\* node as parent and the parent's cost plus the distance as cost; no node is
\* removed, no point changes, and every parent link names another existing
\* node.
C9_AppendOnly ==
    /\ Len(nodes) = 1
    /\ [](/\ Len(nodes) = 1 + Added
          /\ \A i \in 1..Len(nodes):
                 /\ nodes[i].parent \in 0..Len(nodes)
                 /\ nodes[i].parent # i)
    /\ [][/\ Len(nodes') \in {Len(nodes), Len(nodes) + 1}
          /\ \A i \in 1..Len(nodes): nodes'[i].point = nodes[i].point
          /\ Len(nodes') = Len(nodes) + 1 =>
                LET n == nodes'[Len(nodes')]
                    nearest == find_nearest(nodes, rand_point)
                IN /\ pc = "add_node"
                   /\ n.parent = nearest
                   /\ n.cost = add[nodes[nearest].cost,
                                   distance(n.point, nodes[nearest].point)]
                   /\ \A i \in 1..Len(nodes): nodes'[i] = nodes[i]]_vars

\* a node was appended below a node that is not the root
C9_Witness ==
    /\ pc = "rewire"
    /\ Len(nodes) >= 4
    /\ nodes[Len(nodes)].parent \in 2..(Len(nodes) - 2)

\* the least cost an inserted qualifying node was inserted with
RECURSIVE MinInserted(_)
MinInserted(k) ==
    IF k < 2 THEN INFINITY
    ELSE LET rest == MinInserted(k - 1)
         IN IF inserted_cost[k] < rest /\ Qualifies(k) THEN inserted_cost[k] ELSE rest

\* C10: update_best_path returns true and sets best_cost to the newest
\* node's cost iff that node is strictly within goal_threshold of the goal
\* and its cost is strictly below best_cost, and otherwise leaves best_cost;
\* so best_cost is the least insertion-time cost of the qualifying nodes
\* inserted so far.
C10_UpdateRule ==
    /\ [][pc = "update_best_path" =>
            LET last_node == nodes[Len(nodes)]
                better == /\ distance(last_node.point, goal) < goal_threshold
                          /\ last_node.cost < best_cost
            IN /\ improved' = better
               /\ best_cost' = IF better THEN inserted_cost[Len(nodes)] ELSE best_cost]_vars
    /\ [][pc # "update_best_path" => best_cost' = best_cost]_vars
    /\ [](pc \in {"loop", "done", "next_frame"} => best_cost = MinInserted(Len(nodes)))

\* a qualifying node was refused because its cost did not beat best_cost
C10_Witness ==
    /\ pc = "next_frame"
    /\ ~improved
    /\ best_cost < inserted_cost[Len(nodes)]
    /\ Qualifies(Len(nodes))

\* the indices near returns for node i, as a set
NearSet(i) == {near(nodes, i, search_radius)[k] :
                  k \in 1..Len(near(nodes, i, search_radius))}

\* the cost of node m through the node being rewired
CostVia(m) ==
    add[nodes[new_node_index].cost,
        distance(nodes[new_node_index].point, nodes[m].point)]

\* C11: rewire(new) gives each node m of near(new) the parent new and the
\* cost new.cost + distance(new, m) if that sum is strictly below the cost m
\* had before the call, and leaves m's parent and cost as they were otherwise
\* (equality included); new.cost is the cost at entry.
C11_RewireEffect ==
    [][pc = "rewire" =>
          \A m \in NearSet(new_node_index):
              IF CostVia(m) < nodes[m].cost
              THEN /\ nodes'[m].parent = new_node_index
                   /\ nodes'[m].cost = CostVia(m)
              ELSE /\ nodes'[m].parent = nodes[m].parent
                   /\ nodes'[m].cost = nodes[m].cost]_vars

\* rewire has re-parented one neighbour and left alone another whose cost
\* equals the cost through the new node
C11_Witness ==
    /\ pc = "update_best_path"
    /\ \E m \in NearSet(new_node_index): nodes[m].parent = new_node_index
    /\ \E m \in NearSet(new_node_index):
           /\ nodes[m].parent # new_node_index
           /\ nodes[m].cost = CostVia(m)

\* the cost of an inserted qualifying node other than the newest is below
\* best_cost
OlderNodeBeatsBest ==
    \E i \in 2..(Len(nodes) - 1): nodes[i].cost < best_cost /\ Qualifies(i)

\* node i is strictly within search_radius of the node being rewired
InRadius(i) ==
    distance(nodes[i].point, nodes[new_node_index].point) < search_radius

\* C12: rewire(new) changes neither the number of nodes, nor any point, nor
\* the parent and cost of the new node, nor the parent and cost of a node
\* that is not within search_radius of the new node, nor best_cost, nor the
\* cached path; when it lowers an older qualifying node below best_cost,
\* best_cost stays and the iteration signals an improvement only if the
\* newest node itself qualifies with a cost below best_cost.
C12_RewireFrame ==
    /\ [][pc = "rewire" =>
            /\ Len(nodes') = Len(nodes)
            /\ \A i \in 1..Len(nodes): nodes'[i].point = nodes[i].point
            /\ nodes'[new_node_index] = nodes[new_node_index]
            /\ \A i \in 1..Len(nodes): ~InRadius(i) => nodes'[i] = nodes[i]
            /\ best_cost' = best_cost
            /\ optimal_path' = optimal_path
            /\ improved' = improved]_vars
    /\ [][(pc = "update_best_path" /\ OlderNodeBeatsBest) =>
            /\ improved' = (Qualifies(Len(nodes)) /\ nodes[Len(nodes)].cost < best_cost)
            /\ ~improved' => (best_cost' = best_cost /\ optimal_path' = optimal_path)]_vars

\* a rewire lowered an older qualifying node below best_cost, a descendant
\* outside the radius kept its cost, and the iteration signalled nothing
C12_Witness ==
    /\ pc = "next_frame"
    /\ ~improved
    /\ best_cost < INFINITY
    /\ \E i \in 2..(Len(nodes) - 1):
           /\ nodes[i].parent = new_node_index
           /\ nodes[i].cost < best_cost
           /\ Qualifies(i)
    /\ \E j \in 2..(Len(nodes) - 1):
           /\ ~InRadius(j)
           /\ nodes[j].cost > add[Parent(j).cost, EdgeLength(j)]

\* C13: for every node i of the tree, near(i) returns exactly the indices
\* j # i at distance strictly below search_radius of node i, each once: a
\* node at distance exactly search_radius is left out, i is left out, and
\* with search_radius = 0 nothing is returned, duplicates of node i included.
C13_NearSet ==
    \A i \in 1..Len(nodes):
        \A found \in {near(nodes, i, search_radius)}:
           /\ \A k \in 1..Len(found): found[k] \in 1..Len(nodes) \ {i}
           /\ \A k, l \in 1..Len(found): k < l => found[k] < found[l]
           /\ \A j \in 1..Len(nodes) \ {i}:
                  \A d \in {distance(nodes[j].point, nodes[i].point)}:
                      /\ (\E k \in 1..Len(found): found[k] = j) <=> d < search_radius
                      /\ d = search_radius => ~ \E k \in 1..Len(found): found[k] = j
           /\ search_radius = 0 => found = << >>

\* search_radius is 0 and two nodes share a point
C13_Witness ==
    /\ search_radius = 0
    /\ \E i, j \in 1..Len(nodes): i # j /\ nodes[i].point = nodes[j].point

\* C14: the tree is never empty, and for every query point find_nearest
\* returns the index of an existing node that is at least as close to the
\* point as every node of the tree: so for each point the sampler may return
\* where an iteration starts, and so for the point it did return.
C14_NearestIsClosest ==
    /\ Len(nodes) >= 1
    /\ (pc = "loop" /\ iterations < max_iterations) =>
           \A p \in SamplePoints:
               \A n \in {find_nearest(nodes, p)}:
                   /\ n \in 1..Len(nodes)
                   /\ \A j \in 1..Len(nodes):
                          distance(nodes[n].point, p) <= distance(nodes[j].point, p)
    /\ pc = "add_node" =>
           /\ nearest_index \in 1..Len(nodes)
           /\ \A j \in 1..Len(nodes):
                  distance(nodes[nearest_index].point, rand_point)
                      <= distance(nodes[j].point, rand_point)
    /\ pc # "panic"

\* the nearest node of the sample is neither the root nor the newest node,
\* and it is strictly closer than both
C14_Witness ==
    /\ pc = "add_node"
    /\ nearest_index \in 2..(Len(nodes) - 1)
    /\ distance(nodes[1].point, rand_point)
           > distance(nodes[nearest_index].point, rand_point)
    /\ distance(nodes[Len(nodes)].point, rand_point)
           > distance(nodes[nearest_index].point, rand_point)

\* C15: an iteration runs sample, nearest, steer, collision test, add_node,
\* rewire, update_best_path in this order and is over before the next one
\* starts; the node is added exactly when the collision test accepts the
\* steered point; an iteration whose point is rejected changes no node, no
\* parent, no cost, not best_cost and not the cached path.
C15_StepOrder ==
    [][/\ pc = "loop" =>
            \/ /\ iterations >= max_iterations
               /\ pc' = "done"
            \/ /\ iterations < max_iterations
               /\ nearest_index' = find_nearest(nodes, rand_point')
               /\ new_point' = steer(nodes[nearest_index'].point, rand_point', step_size)
               /\ pc' = "add_node" <=> is_collision_free(new_point')
               /\ pc' = "next_frame" <=> ~is_collision_free(new_point')
       /\ pc = "add_node" =>
            /\ pc' = "rewire"
            /\ nodes' = add_node(nodes, new_point, nearest_index)
            /\ new_node_index' = Len(nodes')
       /\ pc = "rewire" =>
            /\ pc' = "update_best_path"
            /\ new_node_index = Len(nodes)
            /\ nodes' = rewire(nodes, new_node_index, search_radius)
       /\ pc = "update_best_path" => pc' = "next_frame"
       /\ pc = "next_frame" => (pc' = "loop" /\ iterations' = iterations + 1)
       /\ pc \notin {"add_node", "rewire"} => nodes' = nodes
       /\ pc # "update_best_path" =>
            (best_cost' = best_cost /\ optimal_path' = optimal_path)
       /\ pc # "next_frame" => iterations' = iterations]_vars

\* a second iteration went through add_node, rewire and update_best_path
\* and ended with a new best path
C15_Witness ==
    /\ pc = "next_frame"
    /\ iterations >= 1
    /\ Len(nodes) = iterations + 2
    /\ new_node_index = Len(nodes)
    /\ improved

\* C16: the loop stops when and only when iterations has reached
\* max_iterations, a found path does not stop it, every run stops, by then it
\* has run max_iterations iterations, and the tree never has more than
\* 1 + max_iterations nodes.
C16_IterationBudget ==
    /\ <>(pc = "done")
    /\ [](pc = "done" => (iterations = max_iterations
                            /\ Len(nodes) = 1 + max_iterations))
    /\ [](iterations <= max_iterations /\ Len(nodes) <= 1 + max_iterations)
    /\ [][pc' = "done" => (pc = "done" \/ iterations >= max_iterations)]_vars
    /\ [][(pc = "loop" /\ iterations >= max_iterations) => pc' = "done"]_vars
    /\ [][(pc = "loop" /\ iterations < max_iterations /\ best_cost < INFINITY)
            => pc' \in {"add_node", "next_frame"}]_vars

\* the loop has stopped, with a path found before the last iteration
C16_Witness ==
    /\ pc = "done"
    /\ iterations = max_iterations
    /\ best_cost < INFINITY
    /\ \E i \in 2..(Len(nodes) - 1): inserted_cost[i] = best_cost /\ Qualifies(i)

\* the edge lengths of the parent chain of i, summed in f32 from the root
\* on, over at most fuel edges
RECURSIVE ChainLength(_, _)
ChainLength(i, fuel) ==
    IF nodes[i].parent = None \/ fuel = 0 THEN from_int[0]
    ELSE add[ChainLength(nodes[i].parent, fuel - 1), EdgeLength(i)]

\* C17 as worded: every node with a parent has cost >= (stored cost of its
\* parent) + distance to its parent and cost >= the summed edge length of its
\* parent chain, and the stored cost does not decrease from a node to its
\* parent.
C17_CostNotLowerAtParent ==
    \A i \in 1..Len(nodes):
        HasParent(i) =>
            /\ nodes[i].cost >= add[Parent(i).cost, EdgeLength(i)]
            /\ nodes[i].cost >= ChainLength(i, Len(nodes))
            /\ Parent(i).cost >= nodes[i].cost

\* C17: every node with a parent has cost >= (stored cost of its parent) +
\* distance to its parent and cost >= the summed edge length of its parent
\* chain, and the stored cost does not increase from a node to its parent.
C17_CostUpperBound ==
    \A i \in 1..Len(nodes):
        HasParent(i) =>
            /\ nodes[i].cost >= add[Parent(i).cost, EdgeLength(i)]
            /\ nodes[i].cost >= ChainLength(i, Len(nodes))
            /\ Parent(i).cost <= nodes[i].cost

\* a node whose parent was rewired: its cost is above parent + edge and above
\* the length of its chain
C17_Witness ==
    /\ pc = "next_frame"
    /\ \E i \in 1..Len(nodes):
           /\ HasParent(i)
           /\ HasParent(nodes[i].parent)
           /\ nodes[i].cost > add[Parent(i).cost, EdgeLength(i)]
           /\ nodes[i].cost > ChainLength(i, Len(nodes))

\* C18: the stored cost of an existing node never goes up; it changes only in
\* rewire, and then to a strictly smaller value; no stored cost is negative.
C18_CostNeverIncreases ==
    /\ [][\A i \in 1..Len(nodes):
            /\ nodes'[i].cost <= nodes[i].cost
            /\ nodes'[i].cost # nodes[i].cost =>
                 (pc = "rewire" /\ nodes'[i].cost < nodes[i].cost)]_vars
    /\ [](\A i \in 1..Len(nodes):
            nodes[i].cost >= 0 /\ nodes[i].cost <= inserted_cost[i])

\* rewire has just lowered the cost of a node below the cost it was added with
C18_Witness ==
    /\ pc = "update_best_path"
    /\ \E i \in 1..Len(nodes):
           /\ nodes[i].parent = new_node_index
           /\ nodes[i].cost < inserted_cost[i]

\* the lengths of the first k - 1 segments of a sequence of points, summed
\* in f32 from the first segment on
RECURSIVE PathLengthTo(_, _)
PathLengthTo(path, k) ==
    IF k <= 1 THEN from_int[0]
    ELSE add[PathLengthTo(path, k - 1), distance(path[k - 1], path[k])]

PathLength(path) == PathLengthTo(path, Len(path))

\* C19: when main replaces optimal_path, the new path starts at the start
\* point, ends strictly within goal_threshold of the goal, is the parent chain
\* of the newest node as rewire left it, and is no longer than the best_cost
\* set in the same iteration; a non-empty optimal_path goes with a finite
\* best_cost.
C19_CachedPathValid ==
    /\ [][(optimal_path' # optimal_path \/ (pc = "update_best_path" /\ improved')) =>
            LET path == optimal_path'
                last == Len(nodes)
            IN /\ pc = "update_best_path"
               /\ nodes' = nodes
               /\ last = new_node_index
               /\ Len(path) >= 1
               /\ path[1] = start
               /\ distance(path[Len(path)], goal) < goal_threshold
               /\ Len(path) = Depth(last) + 1
               /\ \A j \in 1..Len(path):
                      path[j] = nodes[AncestorAt(last, Len(path) - j)].point
               /\ best_cost' = nodes[last].cost
               /\ PathLength(path) <= best_cost']_vars
    /\ [](optimal_path # <<>> => best_cost < INFINITY)

\* a cached path was replaced by a path of at least two segments
C19_Witness ==
    /\ pc = "next_frame"
    /\ improved
    /\ Len(optimal_path) >= 3
    /\ \E i \in 2..(Len(nodes) - 1): inserted_cost[i] > best_cost /\ Qualifies(i)
    /\ PathLength(optimal_path) <= best_cost

====
